---- MODULE Spec2Model ----
(***************************************************************************)
(* Authentication and access control of the memo application:              *)
(*   ErrorHandlingService  (handleError, executeWithRetry,                  *)
(*                          executeWithTimeout)                             *)
(*   AllowlistService      (loadConfig, checkEmailAllowed)                  *)
(*   GoogleAuthService     (initialize, login, handleCredentialResponse,    *)
(*                          logout, getCurrentUser, isTokenValid,           *)
(*                          refreshToken, token storage)                    *)
(*   useAuth               (checkAuthStatus, login, logout, refreshToken,   *)
(*                          storage listener, validity interval)            *)
(*                                                                         *)
(* Asynchronous functions are cut at their real suspension points          *)
(* (network fetches, timers, the provider's interactive flow); the code    *)
(* between two suspension points, continuations of settled promises        *)
(* included, runs as one step of the event loop.                           *)
(***************************************************************************)
EXTENDS Integers, Sequences, FiniteSets, TLC

(***************************************************************************)
(* Error taxonomy (types/auth.ts) and raw failures.                        *)
(***************************************************************************)
OAUTH_FAILED == "OAUTH_FAILED"
ACCESS_DENIED == "ACCESS_DENIED"
NETWORK_ERROR == "NETWORK_ERROR"
TOKEN_EXPIRED == "TOKEN_EXPIRED"
CONFIG_ERROR == "CONFIG_ERROR"

AuthErrorType == {OAUTH_FAILED, ACCESS_DENIED, NETWORK_ERROR, TOKEN_EXPIRED, CONFIG_ERROR}

\* A thrown value.  shape "auth": an object with type, message and retryable;
\* shape "error": an instance of Error with a name and a message; shape
\* "other": anything else (a string, a plain object).  The message of an
\* Error is kept as the set of classifier keywords its lower-cased text
\* contains; msg identifies the message text.
AuthErr(type, msg, retryable) ==
    [shape |-> "auth", name |-> "", kw |-> {}, msg |-> msg, type |-> type, retryable |-> retryable]

ErrorObj(name, kw, msg) ==
    [shape |-> "error", name |-> name, kw |-> kw, msg |-> msg, type |-> "", retryable |-> FALSE]

OtherValue(kind, msg) ==
    [shape |-> "other", name |-> kind, kw |-> {}, msg |-> msg, type |-> "", retryable |-> FALSE]

\* null / undefined where an error may stand
NoError == [shape |-> "none", name |-> "", kw |-> {}, msg |-> "", type |-> "", retryable |-> FALSE]

(***************************************************************************)
(* ErrorHandlingService.handleError and its helpers.                       *)
(***************************************************************************)
isAuthError(error) == error.shape = "auth"

isNetworkError(error) ==
    /\ error.shape = "error"
    /\ \/ "network" \in error.kw
       \/ "fetch" \in error.kw
       \/ "timeout" \in error.kw
       \/ "connection" \in error.kw
       \/ error.name = "NetworkError"
       \/ error.name = "TimeoutError"

createNetworkError(error) ==
    AuthErr(NETWORK_ERROR, IF error.shape = "error" THEN error.msg ELSE "network-default", TRUE)

createGenericError(error) ==
    IF "token" \in error.kw /\ "expired" \in error.kw
      THEN AuthErr(TOKEN_EXPIRED, error.msg, TRUE)
    ELSE IF "access" \in error.kw /\ "denied" \in error.kw
      THEN AuthErr(ACCESS_DENIED, error.msg, FALSE)
    ELSE IF "config" \in error.kw \/ "client_id" \in error.kw
      THEN AuthErr(CONFIG_ERROR, error.msg, FALSE)
    ELSE AuthErr(OAUTH_FAILED, error.msg, TRUE)

\* a classifier whose fallback is not retryable
createUnknownErrorFinal(error) ==
    AuthErr(OAUTH_FAILED, IF error.name = "string" THEN error.msg ELSE "unexpected", FALSE)

createUnknownError(error) ==
    AuthErr(OAUTH_FAILED, IF error.name = "string" THEN error.msg ELSE "unexpected", TRUE)

\* a classifier that reads the message before it looks for a network failure
handleErrorMessageFirst(error) ==
    IF isAuthError(error) THEN error
    ELSE IF error.shape = "error" /\ createGenericError(error).type # OAUTH_FAILED
      THEN createGenericError(error)
    ELSE IF isNetworkError(error) THEN createNetworkError(error)
    ELSE IF error.shape = "error" THEN createGenericError(error)
    ELSE createUnknownError(error)

handleError(error) ==
    IF isAuthError(error) THEN error
    ELSE IF isNetworkError(error) THEN createNetworkError(error)
    ELSE IF error.shape = "error" THEN createGenericError(error)
    ELSE createUnknownError(error)

\* The rejection of createTimeoutPromise: new Error("操作がタイムアウトしました (Nms)").
\* Its name is "Error" and its text holds none of the classifier's keywords.
TimeoutRejection == ErrorObj("Error", {}, "operation-timed-out")

(***************************************************************************)
(* ErrorHandlingService.executeWithRetry: the decisions of one loop turn.  *)
(***************************************************************************)
\* defaults of the module-level errorHandlingService instance
DefaultRetryDelay == 1000
BackoffMultiplier == 2
MaxDelay == 10000
NetworkTimeoutMs == 10000

RECURSIVE Pow(_, _)
Pow(b, e) == IF e = 0 THEN 1 ELSE b * Pow(b, e - 1)

Min(a, b) == IF a <= b THEN a ELSE b

\* delay waited after the failure of attempt `attempt` (0-based)
BackoffDelay(delay, attempt) == Min(delay * Pow(BackoffMultiplier, attempt), MaxDelay)

\* a loop that gives up one attempt early
RetryStopsEarly(lastError, attempt, maxRetries) ==
    (~lastError.retryable) \/ attempt >= maxRetries - 1

\* if (!lastError.retryable || attempt === config.maxRetries) break
RetryStops(lastError, attempt, maxRetries) ==
    (~lastError.retryable) \/ attempt = maxRetries

\* the ErrorHandlingResult of a loop that ended in success at `attempt`
RetrySuccess(attempt) ==
    [success |-> TRUE, error |-> NoError, retryCount |-> attempt]

\* a result that counts the failed attempt itself as a retry
RetryFailureCountsAttempt(lastError, attempt) ==
    [success |-> FALSE, error |-> lastError, retryCount |-> attempt + 1]

\* the ErrorHandlingResult of a loop that broke at `attempt`
RetryFailure(lastError, attempt) ==
    [success |-> FALSE, error |-> lastError, retryCount |-> attempt]

NoResult == [success |-> FALSE, error |-> NoError, retryCount |-> -1]

(***************************************************************************)
(* Bounds of the model.                                                    *)
(***************************************************************************)
\* events of one run beyond the mount-time checkAuthStatus: operations of
\* useAuth that are started, faults (an executeWithTimeout timer that wins
\* its race, a network answer that is a failure, a provider flow that ends
\* without a decodable credential, a token answer whose id token is no JWT),
\* ticks of the wall clock (one tick = the default token life) and the unmount
MaxEvents == 2
\* largest maxRetries tried on the retry engine alone
MaxN == 3
\* last clock value of the token checks made on their own
MaxClock == 2
\* failed network answers the mount-time checkAuthStatus can meet while no
\* other event happens: three attempts of initialize in each of the three
\* attempts of checkAuthStatus
MaxFaults == 9

(***************************************************************************)
(* Email addresses are sequences of characters.                            *)
(***************************************************************************)
\* a toLowerCase that leaves every character as it is
toLowerCaseCharAsIs(c) == c

toLowerCaseChar(c) ==
    CASE c = "A" -> "a"
      [] c = "B" -> "b"
      [] c = "X" -> "x"
      [] c = "C" -> "c"
      [] OTHER -> c

toLowerCase(s) == [i \in 1..Len(s) |-> toLowerCaseChar(s[i])]

\* [^\s@]+ : a non-empty run without white space and without "@"
PlainRun(s, from, to) ==
    /\ from <= to
    /\ \A i \in from..to : s[i] # " " /\ s[i] # "@"

includesDotDot(s) == \E i \in 1..(Len(s) - 1) : s[i] = "." /\ s[i + 1] = "."

\* AllowlistService.isValidEmail
isValidEmail(email) ==
    /\ \E at \in 1..Len(email) : \E dot \in (at + 1)..Len(email) :
          /\ email[at] = "@"
          /\ email[dot] = "."
          /\ PlainRun(email, 1, at - 1)
          /\ PlainRun(email, at + 1, dot - 1)
          /\ PlainRun(email, dot + 1, Len(email))
    /\ ~includesDotDot(email)
    /\ LET at == CHOOSE i \in 1..Len(email) : email[i] = "@"
       IN  email[at + 1] # "." /\ email[Len(email)] # "."

UserA == <<"a", "@", "x", ".", "c">>
UserB == <<"b", "@", "x", ".", "c">>
NoUser == <<>>

\* identities the provider can sign a credential for
Emails == {UserA, UserB}

\* policy documents the configured URL can serve (their allowedEmails)
NoConfig == [loaded |-> FALSE, allowedEmails |-> {}]
Policy(allowed) == [loaded |-> TRUE, allowedEmails |-> allowed]
PolicyDocs == {{UserA}, {}}

\* AllowlistService.checkEmailAllowed against a loaded config
checkEmailAllowed(cfg, email) ==
    /\ cfg.loaded
    /\ isValidEmail(email)
    /\ \E allowedEmail \in cfg.allowedEmails : toLowerCase(allowedEmail) = toLowerCase(email)

(***************************************************************************)
(* Token storage (localStorage keys of GoogleAuthService).                 *)
(***************************************************************************)
\* default life of a login's tokens (expires_in: 3600), in clock units
ExpiresIn == 1

NoIdToken == [present |-> FALSE, email |-> NoUser, exp |-> 0, good |-> FALSE]
IdToken(email, exp) == [present |-> TRUE, email |-> email, exp |-> exp, good |-> TRUE]
\* a credential string that decodeJWT rejects
BadIdToken == [present |-> TRUE, email |-> NoUser, exp |-> 0, good |-> FALSE]

NoExpiry == -1
EmptyStorage ==
    [access |-> "null", id |-> NoIdToken, refresh |-> "null", expiry |-> NoExpiry, user |-> NoUser]

\* saveTokens: access token, id token and expiry are always written, the
\* refresh token only when the token info carries one
saveTokens(store, access, id, refresh, expiresIn, t) ==
    [store EXCEPT !.access = access,
                  !.id = id,
                  !.expiry = t + expiresIn,
                  !.refresh = IF refresh # "null" THEN refresh ELSE @]

saveUserInfo(store, email) == [store EXCEPT !.user = email]

\* a clearTokens that leaves the refresh token
clearTokensKeepsRefresh(store) ==
    [store EXCEPT !.access = "null", !.id = NoIdToken, !.expiry = NoExpiry]

clearTokens(store) ==
    [store EXCEPT !.access = "null", !.id = NoIdToken, !.refresh = "null", !.expiry = NoExpiry]

clearUserInfo(store) == [store EXCEPT !.user = NoUser]

\* GoogleAuthService.logout: both branches end with tokens and user cleared
brokerLogout(store) == clearUserInfo(clearTokens(store))

\* the catch block of GoogleAuthService.logout
logoutCatch(store) == clearUserInfo(clearTokens(store))

\* an isTokenValid that trusts the persisted expiry alone
isTokenValidByExpiryOnly(store, t) ==
    /\ store.id.present
    /\ ~(store.expiry # NoExpiry /\ store.expiry # 0 /\ t >= store.expiry)
    /\ store.id.good

\* GoogleAuthService.isTokenValid
isTokenValid(store, t) ==
    /\ store.id.present
    /\ ~(store.expiry # NoExpiry /\ store.expiry # 0 /\ t >= store.expiry)
    /\ store.id.good
    /\ ~(store.id.exp <= t)

\* a getCurrentUser that trusts the stored user without asking the allowlist
getCurrentUserTrusting(store, cfg, t) ==
    IF ~isTokenValid(store, t) THEN [user |-> NoUser, store |-> store, how |-> "token-invalid"]
    ELSE IF store.user = NoUser THEN [user |-> NoUser, store |-> store, how |-> "no-user-info"]
    ELSE [user |-> store.user, store |-> store, how |-> "user"]

\* GoogleAuthService.getCurrentUser: the user returned and the storage left
getCurrentUser(store, cfg, t) ==
    IF ~isTokenValid(store, t) THEN [user |-> NoUser, store |-> store, how |-> "token-invalid"]
    ELSE IF store.user = NoUser THEN [user |-> NoUser, store |-> store, how |-> "no-user-info"]
    ELSE IF ~checkEmailAllowed(cfg, store.user)
      THEN [user |-> NoUser, store |-> brokerLogout(store), how |-> "not-allowed"]
    ELSE [user |-> store.user, store |-> store, how |-> "user"]

(***************************************************************************)
(* State.                                                                  *)
(***************************************************************************)
VARIABLES
    authState,      \* useAuth: the AuthState held by useState
    ls,             \* localStorage keys of GoogleAuthService
    config,         \* AllowlistService.config
    clientId,       \* GoogleAuthService.clientId ("null" or "set")
    isInitialized,  \* GoogleAuthService.isInitialized
    googleLoaded,   \* window.google.accounts is present
    loginResolve,   \* GoogleAuthService.loginResolve: the promise it resolves
    tasks,          \* the suspended asynchronous calls
    promptShown,    \* the One Tap prompt is on screen
    loginTimers,    \* armed 30 s timers of login(), per controller operation
    lastCheck,      \* how the latest getCurrentUser() call ended
    popupOpen,      \* the window named "google-login" is open
    serverPolicy,   \* allowedEmails of the document the configured URL serves
    now,            \* Date.now()
    nOps,           \* controller operations started so far
    nFaults,        \* timers that won their race and failed network answers so far
    mounted,        \* the component that uses the hook is mounted
    intervalArmed,  \* armed setInterval timers of the token validity effect
    lastLogout,     \* what started the latest useAuth.logout() and how it went
    storedBy,       \* the operation whose login() call the stored session came from (0: none of this run)
    nFetches        \* fetches of the policy document issued so far, per controller operation

VARIABLES
    rMax,           \* retry engine alone: config.maxRetries
    rPc,            \* "call", "await", "sleep" or "done"
    rAttempt,       \* loop variable attempt
    rCalls,         \* times operation() was invoked
    rInFlight,      \* invocations of operation() that have not settled
    rHist,          \* what each finished attempt ended with
    rDelays,        \* delays slept so far
    rResult         \* the ErrorHandlingResult returned

VARIABLES
    callArg,        \* a service method called on its own: its argument
    ret,            \* and what it returned
    thrown,         \* handleError called on its own: the value it is given
    classified      \* and the AuthError it returned

worldVars == <<authState, ls, config, clientId, isInitialized, googleLoaded, loginResolve,
               tasks, promptShown, loginTimers, lastCheck, mounted, intervalArmed, lastLogout,
               storedBy, nFetches>>
mainVars == <<worldVars, popupOpen, serverPolicy, now, nOps, nFaults>>
retryVars == <<rMax, rPc, rAttempt, rCalls, rInFlight, rHist, rDelays, rResult>>
callVars == <<callArg, ret, thrown, classified>>
vars == <<mainVars, retryVars, callVars>>

\* operation 1 is the checkAuthStatus of the mount effect
OpIds == 1..(MaxEvents + 1)

(***************************************************************************)
(* A task is a chain of nested asynchronous calls suspended at one point.  *)
(*   kind  checkAuthStatus, login, refreshToken: an operation of useAuth    *)
(*         checkBody, loginBody: the operation of a controller loop whose   *)
(*           executeWithTimeout fired (it runs on, unobserved)              *)
(*         initBody, refreshBody: the same for the loops of initialize and  *)
(*           GoogleAuthService.refreshToken                                 *)
(*   a1    attempt of the controller's executeWithRetry loop                *)
(*   a3    attempt of the loop of initialize / GoogleAuthService.refresh    *)
(*   pc    "fetch" (loadConfig), "script" (loadGoogleAPI), "post" (token    *)
(*         endpoint), "promise" (login's promise), "sleep3" and "sleep1"    *)
(*         (the backoff sleep of the inner and of the controller loop)      *)
(*   last  the classified error the sleeping loop is retrying after         *)
(*   by    "interval" for a refreshToken called by checkTokenValidity       *)
(***************************************************************************)
Task(kind, op) ==
    [kind |-> kind, op |-> op, a1 |-> 0, a3 |-> 0, pc |-> "new",
     last |-> NoError, capId |-> NoIdToken, capRefresh |-> "null", by |-> "user"]

CtlKinds == {"checkAuthStatus", "login", "refreshToken"}

\* maxRetries each caller passes to executeWithRetry
MaxRetriesOf(kind) ==
    CASE kind = "checkAuthStatus" -> 2
      [] kind = "login" -> 1
      [] kind = "initialize" -> 2
      [] kind = "refreshToken" -> 2

NoPromise == <<0, 0>>
PromiseOf(t) == <<t.op, t.a1>>

\* the part of the state the continuations work on
World ==
    [authState |-> authState, ls |-> ls, config |-> config, clientId |-> clientId,
     isInitialized |-> isInitialized, googleLoaded |-> googleLoaded,
     loginResolve |-> loginResolve, tasks |-> tasks, promptShown |-> promptShown,
     loginTimers |-> loginTimers, lastCheck |-> lastCheck, lastLogout |-> lastLogout, now |-> now,
     storedBy |-> storedBy, nFetches |-> nFetches]

\* a validity effect that never clears the interval it armed
ValidityEffectKeepsTimer(armed, was, is) ==
    IF was = is THEN armed ELSE armed + (IF is THEN 1 ELSE 0)

\* the token validity effect, re-run when authState.isAuthenticated changed
\* from `was` to `is`: the cleanup of the previous run (clearInterval when it
\* had armed one), then setInterval when authenticated
ValidityEffect(armed, was, is) ==
    IF was = is THEN armed
    ELSE (IF was THEN armed - 1 ELSE armed) + (IF is THEN 1 ELSE 0)

\* the timers armed once the hook has rendered isAuthenticated = is; after
\* the unmount no effect runs
EffectsAfter(is) ==
    IF mounted THEN ValidityEffect(intervalArmed, authState.isAuthenticated, is) ELSE intervalArmed

\* after the unmount the updaters are still called; authState is then the
\* value they compute, which nothing renders
Becomes(w) ==
    /\ authState' = w.authState
    /\ intervalArmed' = EffectsAfter(w.authState.isAuthenticated)
    /\ mounted' = mounted
    /\ lastLogout' = w.lastLogout
    /\ storedBy' = IF w.ls.user = NoUser THEN 0 ELSE w.storedBy
    /\ nFetches' = w.nFetches
    /\ ls' = w.ls
    /\ config' = w.config
    /\ clientId' = w.clientId
    /\ isInitialized' = w.isInitialized
    /\ googleLoaded' = w.googleLoaded
    /\ loginResolve' = w.loginResolve
    /\ tasks' = w.tasks
    /\ promptShown' = w.promptShown
    /\ loginTimers' = w.loginTimers
    /\ lastCheck' = w.lastCheck

Put(w, old, new) == [w EXCEPT !.tasks = (@ \ {old}) \cup {new}]
Drop(w, t) == [w EXCEPT !.tasks = @ \ {t}]

(***************************************************************************)
(* useAuth: what an operation does once its executeWithRetry has returned. *)
(***************************************************************************)
\* a checkAuthStatus whose failure branch leaves isLoading set
AfterCheckAuthStatusStillLoading(r, user) ==
    IF r.success
      THEN IF user # NoUser
             THEN [isAuthenticated |-> TRUE, user |-> user, isLoading |-> FALSE, error |-> NoError]
             ELSE [isAuthenticated |-> FALSE, user |-> NoUser, isLoading |-> FALSE, error |-> NoError]
      ELSE [isAuthenticated |-> FALSE, user |-> NoUser, isLoading |-> TRUE, error |-> r.error]

\* the AuthState checkAuthStatus ends with, from the ErrorHandlingResult and its data
AfterCheckAuthStatus(r, user) ==
    IF r.success
      THEN IF user # NoUser
             THEN [isAuthenticated |-> TRUE, user |-> user, isLoading |-> FALSE, error |-> NoError]
             ELSE [isAuthenticated |-> FALSE, user |-> NoUser, isLoading |-> FALSE, error |-> NoError]
      ELSE [isAuthenticated |-> FALSE, user |-> NoUser, isLoading |-> FALSE, error |-> r.error]

\* the AuthState login ends with
AfterLogin(r, user) ==
    IF r.success /\ user # NoUser
      THEN [isAuthenticated |-> TRUE, user |-> user, isLoading |-> FALSE, error |-> NoError]
      ELSE [isAuthenticated |-> FALSE, user |-> NoUser, isLoading |-> FALSE, error |-> r.error]

\* the AuthState useAuth.logout ends with (GoogleAuthService.logout never rejects)
LoggedOutState ==
    [isAuthenticated |-> FALSE, user |-> NoUser, isLoading |-> FALSE, error |-> NoError]

\* an operation whose failure branch updates isLoading and error only
CtlFinishKeepsSession(w, t, r, user) ==
    [Drop(w, t) EXCEPT !.authState =
        IF ~r.success THEN [w.authState EXCEPT !.isLoading = FALSE, !.error = r.error]
        ELSE IF t.kind = "login" THEN AfterLogin(r, user)
        ELSE AfterCheckAuthStatus(r, user)]

\* the updateAuthState call at the end of checkAuthStatus and of login
CtlFinish(w, t, r, user) ==
    [Drop(w, t) EXCEPT !.authState = IF t.kind = "login" THEN AfterLogin(r, user)
                                                          ELSE AfterCheckAuthStatus(r, user)]

\* catch branch of the controller's executeWithRetry: attempt t.a1 failed with raw
CtlAttemptFailed(w, t, raw) ==
    LET lastError == handleError(raw)
    IN  IF RetryStops(lastError, t.a1, MaxRetriesOf(t.kind))
          THEN CtlFinish(w, t, RetryFailure(lastError, t.a1), NoUser)
          ELSE Put(w, t, [t EXCEPT !.pc = "sleep1", !.last = lastError])

(***************************************************************************)
(* GoogleAuthService.initialize and login, as continuations.               *)
(***************************************************************************)
\* initialize() throws result.error into its caller
InitThrew(w, t, e) ==
    CASE t.kind = "checkAuthStatus" -> CtlAttemptFailed(w, t, e)
      \* catch in login(): { success: false, error: handleError(error) }, which
      \* the operation of useAuth.login throws
      [] t.kind = "login" -> CtlAttemptFailed(w, t, handleError(e))
      [] OTHER -> Drop(w, t)

\* catch branch of initialize's executeWithRetry: attempt t.a3 failed with raw
InitAttemptFailed(w, t, raw) ==
    LET lastError == handleError(raw)
    IN  IF t.kind = "initBody" THEN Drop(w, t)
        ELSE IF RetryStops(lastError, t.a3, MaxRetriesOf("initialize"))
          THEN InitThrew(w, t, lastError)
          ELSE Put(w, t, [t EXCEPT !.pc = "sleep3", !.last = lastError])

\* login(): this.loginResolve = resolve; google.accounts.id.prompt(...); setTimeout(..., 30000)
LoginPrompt(w, t) ==
    [Put(w, t, [t EXCEPT !.pc = "promise"]) EXCEPT
        !.loginResolve = PromiseOf(t),
        !.promptShown = TRUE,
        !.loginTimers[t.op] = @ + 1]

\* initialize() returned: checkAuthStatus goes on with getCurrentUser, login with the prompt
InitSucceeded(w, t) ==
    LET g == getCurrentUser(w.ls, w.config, w.now)
    IN  CASE t.kind = "checkAuthStatus" ->
               CtlFinish([w EXCEPT !.ls = g.store, !.lastCheck = g.how], t, RetrySuccess(t.a1), g.user)
          [] t.kind = "checkBody" -> [Drop(w, t) EXCEPT !.ls = g.store, !.lastCheck = g.how]
          [] t.kind \in {"login", "loginBody"} -> LoginPrompt(w, t)
          [] OTHER -> Drop(w, t)

\* loadGoogleAPI resolved: initializeGoogleAuth, this.isInitialized = true
GoogleReady(w, t) ==
    InitSucceeded([w EXCEPT !.googleLoaded = TRUE, !.isInitialized = TRUE], t)

\* operation of initialize's loop: allowlistService.loadConfig() issues its fetch
InitCall(w, t) ==
    [Put(w, t, [t EXCEPT !.pc = "fetch", !.last = NoError]) EXCEPT !.nFetches[t.op] = @ + 1]

\* operation of the controller's loop for attempt t.a1
CtlCall(w, t) ==
    IF t.kind = "login" /\ w.isInitialized
      THEN LoginPrompt(w, t)
      ELSE InitCall(Put(w, t, [t EXCEPT !.a3 = 0]), [t EXCEPT !.a3 = 0])

\* checkAuthStatus / login: updateAuthState({isLoading: true, error: null}), then the loop
CtlBegin(w, t) ==
    LET t0 == [t EXCEPT !.a1 = 0, !.a3 = 0, !.last = NoError]
    IN  CtlCall([Put(w, t, t0) EXCEPT !.authState.isLoading = TRUE, !.authState.error = NoError], t0)

(***************************************************************************)
(* GoogleAuthService.refreshToken and useAuth.refreshToken.                *)
(***************************************************************************)
\* a useAuth.refreshToken that only reports a failed refresh
RefreshReturnedNoLogout(w, t, success) ==
    IF t.kind = "refreshBody" THEN Drop(w, t)
    ELSE IF success
      THEN CtlBegin(Put(w, t, [t EXCEPT !.kind = "checkAuthStatus"]), [t EXCEPT !.kind = "checkAuthStatus"])
      ELSE Drop(w, t)

\* useAuth.refreshToken after googleAuthService.refreshToken() returned:
\* true -> await checkAuthStatus(); false -> await logout()
RefreshReturned(w, t, success) ==
    IF t.kind = "refreshBody" THEN Drop(w, t)
    ELSE IF success
      THEN CtlBegin(Put(w, t, [t EXCEPT !.kind = "checkAuthStatus"]), [t EXCEPT !.kind = "checkAuthStatus"])
      ELSE [Drop(w, t) EXCEPT !.ls = brokerLogout(w.ls), !.authState = LoggedOutState,
                              !.lastLogout = IF t.by = "interval" THEN "interval" ELSE "refresh"]

\* catch branch of refreshToken's executeWithRetry
RefreshAttemptFailed(w, t, raw) ==
    LET lastError == handleError(raw)
    IN  IF t.kind = "refreshBody" THEN Drop(w, t)
        ELSE IF RetryStops(lastError, t.a3, MaxRetriesOf("refreshToken"))
          THEN RefreshReturned(w, t, RetryFailure(lastError, t.a3).success)
          ELSE Put(w, t, [t EXCEPT !.pc = "sleep3", !.last = lastError])

MissingRefreshToken == ErrorObj("Error", {}, "refresh-token-missing")

\* operation of refreshToken's loop: getTokens(); without a refresh token it
\* throws, else it POSTs to the token endpoint
RefreshCall(w, t) ==
    IF w.ls.id.present /\ w.ls.refresh # "null"
      THEN Put(w, t, [t EXCEPT !.pc = "post", !.last = NoError, !.capId = w.ls.id, !.capRefresh = w.ls.refresh])
      ELSE RefreshAttemptFailed(w, t, MissingRefreshToken)

(***************************************************************************)
(* Tasks of the event loop: user and browser events.                       *)
(***************************************************************************)
\* events of this run so far
nEvents == nOps + nFaults + now + (IF mounted THEN 0 ELSE 1)

\* room for one more event in this run
Budget == nEvents < MaxEvents

\* room for one more failed network answer
AnswerBudget == Budget \/ (nEvents = nFaults /\ nFaults < MaxFaults)

Start(kind, by) ==
    /\ mounted
    /\ Budget
    /\ nOps' = nOps + 1
    /\ LET t == [Task(kind, nOps + 2) EXCEPT !.by = by]
           w == [World EXCEPT !.tasks = @ \cup {t}]
       IN  Becomes(IF kind = "refreshToken" THEN RefreshCall(w, t) ELSE CtlBegin(w, t))
    /\ UNCHANGED <<popupOpen, serverPolicy, now, nFaults, retryVars, callVars>>

\* the storage listener: another tab changed one of the google_* keys
StorageEvent == Start("checkAuthStatus", "user")

UserLogin == Start("login", "user")

UserRefresh == Start("refreshToken", "user")

\* an armed 5-minute interval fires: checkTokenValidity
ValidityInterval ==
    /\ intervalArmed > 0
    /\ ~isTokenValid(ls, now)
    /\ Start("refreshToken", "interval")

\* useAuth.logout: GoogleAuthService.logout has no suspension point and never
\* rejects, so the whole operation is one task of the event loop.
\* disableAutoSelect, called when window.google.accounts is there, may throw.
UserLogout(revokeThrows) ==
    /\ mounted
    /\ Budget
    /\ revokeThrows => googleLoaded
    /\ nOps' = nOps + 1
    /\ ls' = IF revokeThrows THEN logoutCatch(ls) ELSE brokerLogout(ls)
    /\ authState' = LoggedOutState
    /\ intervalArmed' = EffectsAfter(FALSE)
    /\ lastLogout' = IF revokeThrows THEN "user-catch" ELSE "user"
    /\ storedBy' = 0
    /\ UNCHANGED <<config, clientId, isInitialized, googleLoaded, loginResolve, tasks, promptShown,
                   loginTimers, lastCheck, mounted, nFetches, popupOpen, serverPolicy, now, nFaults,
                   retryVars, callVars>>

clearError ==
    /\ mounted
    /\ authState.error # NoError
    /\ authState' = [authState EXCEPT !.error = NoError]
    /\ UNCHANGED <<ls, config, clientId, isInitialized, googleLoaded, loginResolve, tasks, promptShown,
                   loginTimers, lastCheck, mounted, intervalArmed, lastLogout, storedBy, nFetches,
                   popupOpen, serverPolicy, now, nOps, nFaults, retryVars, callVars>>

\* the component is torn down: the cleanups of the effects run (clearInterval,
\* removeEventListener); calls in flight go on
Unmount ==
    /\ mounted
    /\ Budget
    /\ mounted' = FALSE
    /\ intervalArmed' = IF authState.isAuthenticated THEN intervalArmed - 1 ELSE intervalArmed
    /\ UNCHANGED <<authState, ls, config, clientId, isInitialized, googleLoaded, loginResolve, tasks,
                   promptShown, loginTimers, lastCheck, lastLogout, storedBy, nFetches, popupOpen,
                   serverPolicy, now, nOps, nFaults, retryVars, callVars>>

(***************************************************************************)
(* Timers of the retry engine.                                             *)
(***************************************************************************)
\* await this.sleep(delay) of the controller's loop returns
CtlSleepDone(t) ==
    /\ t.pc = "sleep1"
    /\ LET t1 == [t EXCEPT !.a1 = @ + 1, !.last = NoError]
       IN  Becomes(CtlCall(Put(World, t, t1), t1))
    /\ UNCHANGED <<popupOpen, serverPolicy, now, nOps, nFaults, retryVars, callVars>>

\* await this.sleep(delay) of the loop of initialize / refreshToken returns
InnerSleepDone(t) ==
    /\ t.pc = "sleep3"
    /\ LET t1 == [t EXCEPT !.a3 = @ + 1, !.last = NoError]
       IN  Becomes(IF t.kind = "refreshToken" THEN RefreshCall(Put(World, t, t1), t1)
                                              ELSE InitCall(Put(World, t, t1), t1))
    /\ UNCHANGED <<popupOpen, serverPolicy, now, nOps, nFaults, retryVars, callVars>>

\* executeWithTimeout of the controller's loop: createTimeoutPromise rejects
\* first, the operation runs on unobserved.  While the operation is inside
\* the first attempt of initialize, that attempt's timer (armed first) fires first.
CtlTimeout(t) ==
    /\ Budget
    /\ t.kind \in {"checkAuthStatus", "login"}
    /\ t.pc \in {"fetch", "script", "sleep3", "promise"}
    /\ ~(t.pc \in {"fetch", "script"} /\ t.a3 = 0)
    /\ nFaults' = nFaults + 1
    /\ LET abandoned == [t EXCEPT !.kind = IF t.kind = "login" THEN "loginBody" ELSE "checkBody"]
       IN  Becomes(CtlAttemptFailed([World EXCEPT !.tasks = @ \cup {abandoned}], t, TimeoutRejection))
    /\ UNCHANGED <<popupOpen, serverPolicy, now, nOps, retryVars, callVars>>

\* executeWithTimeout of the loop of initialize / refreshToken fires
InnerTimeout(t) ==
    /\ Budget
    /\ t.kind \notin {"initBody", "refreshBody"}
    /\ t.pc \in {"fetch", "script", "post"}
    /\ nFaults' = nFaults + 1
    /\ LET abandoned == [t EXCEPT !.kind = IF t.pc = "post" THEN "refreshBody" ELSE "initBody"]
           w == [World EXCEPT !.tasks = @ \cup {abandoned}]
       IN  Becomes(IF t.pc = "post" THEN RefreshAttemptFailed(w, t, TimeoutRejection)
                                    ELSE InitAttemptFailed(w, t, TimeoutRejection))
    /\ UNCHANGED <<popupOpen, serverPolicy, now, nOps, retryVars, callVars>>

(***************************************************************************)
(* Network answers.                                                        *)
(***************************************************************************)
\* what loadConfig throws from its catch block
LoadConfigError == AuthErr(CONFIG_ERROR, "config-load-failed", TRUE)

ScriptLoadError == ErrorObj("Error", {}, "google-api-load-failed")

\* the fetch of loadConfig answers: a valid document (this.config = config,
\* this.clientId = config.googleClientId, then loadGoogleAPI) or anything else
ConfigFetchResponds(t, ok) ==
    /\ t.pc = "fetch"
    /\ ~ok => AnswerBudget
    /\ nFaults' = IF ok THEN nFaults ELSE nFaults + 1
    /\ LET w == [World EXCEPT !.config = Policy(serverPolicy), !.clientId = "set"]
       IN  Becomes(IF ~ok THEN InitAttemptFailed(World, t, LoadConfigError)
                   ELSE IF googleLoaded THEN GoogleReady(w, t)
                   ELSE Put(w, t, [t EXCEPT !.pc = "script"]))
    /\ UNCHANGED <<popupOpen, serverPolicy, now, nOps, retryVars, callVars>>

\* the script tag of loadGoogleAPI loads or fails
ScriptResponds(t, ok) ==
    /\ t.pc = "script"
    /\ ~ok => AnswerBudget
    /\ nFaults' = IF ok THEN nFaults ELSE nFaults + 1
    /\ Becomes(IF ok THEN GoogleReady(World, t) ELSE InitAttemptFailed(World, t, ScriptLoadError))
    /\ UNCHANGED <<popupOpen, serverPolicy, now, nOps, retryVars, callVars>>

\* answers of the token endpoint: a token set with a new id token, one
\* without id_token, one whose id_token is no JWT, a status that is not ok, no
\* answer at all
RefreshAnswers == {"tokens", "tokens-without-id", "tokens-bad-id", "http-error", "network-error"}

RefreshHttpError == ErrorObj("Error", {}, "refresh-failed-status")
FetchTypeError == ErrorObj("TypeError", {"fetch"}, "failed-to-fetch")

\* the token endpoint answers the POST of refreshToken
RefreshResponds(t, answer) ==
    /\ t.pc = "post"
    /\ answer \in {"http-error", "network-error"} => AnswerBudget
    /\ answer = "tokens-bad-id" => Budget
    /\ nFaults' = IF answer \in {"tokens-bad-id", "http-error", "network-error"} THEN nFaults + 1 ELSE nFaults
    /\ LET \* id_token: newTokens.id_token || tokens.id_token
           newId == CASE answer = "tokens" -> IdToken(t.capId.email, now + ExpiresIn)
                      [] answer = "tokens-bad-id" -> BadIdToken
                      [] OTHER -> t.capId
           saved == [World EXCEPT !.ls = saveTokens(ls, "at", newId, t.capRefresh, ExpiresIn, now)]
       IN  Becomes(CASE answer = "http-error" -> RefreshAttemptFailed(World, t, RefreshHttpError)
                     [] answer = "network-error" -> RefreshAttemptFailed(World, t, FetchTypeError)
                     [] OTHER -> RefreshReturned(saved, t, TRUE))
    /\ UNCHANGED <<popupOpen, serverPolicy, now, nOps, retryVars, callVars>>

(***************************************************************************)
(* The provider's interactive flow.                                        *)
(***************************************************************************)
\* an allowlist rejection that invites a retry
AccessDeniedRetryable == AuthErr(ACCESS_DENIED, "not-in-allowlist", TRUE)

\* the error of handleCredentialResponse for an email that is not allowed
AccessDenied == AuthErr(ACCESS_DENIED, "not-in-allowlist", FALSE)

LoginOk(user) == [success |-> TRUE, user |-> user, error |-> NoError]
LoginFailed(error) == [success |-> FALSE, user |-> NoUser, error |-> error]

\* a handler that stores the credential before it asks the allowlist
handleCredentialResponseSavesFirst(cred, store, cfg, t) ==
    IF ~cred.present
      THEN [result |-> LoginFailed(handleError(ErrorObj("Error", {}, "no-credential"))), store |-> store]
    ELSE IF ~cred.good
      THEN [result |-> LoginFailed(handleError(ErrorObj("Error", {}, "jwt-decode-failed"))), store |-> store]
    ELSE [result |-> IF checkEmailAllowed(cfg, cred.email) THEN LoginOk(cred.email)
                                                          ELSE LoginFailed(AccessDenied),
          store |-> saveUserInfo(saveTokens(store, "", cred, "null", ExpiresIn, t), cred.email)]

\* GoogleAuthService.handleCredentialResponse: the LoginResult and the storage left
handleCredentialResponse(cred, store, cfg, t) ==
    IF ~cred.present
      THEN [result |-> LoginFailed(handleError(ErrorObj("Error", {}, "no-credential"))), store |-> store]
    ELSE IF ~cred.good
      THEN [result |-> LoginFailed(handleError(ErrorObj("Error", {}, "jwt-decode-failed"))), store |-> store]
    ELSE IF ~checkEmailAllowed(cfg, cred.email)
      THEN [result |-> LoginFailed(AccessDenied), store |-> store]
    ELSE [result |-> LoginOk(cred.email),
          store |-> saveUserInfo(saveTokens(store, "", cred, "null", ExpiresIn, t), cred.email)]

\* if (this.loginResolve) { this.loginResolve(result); this.loginResolve = null }
\* and what the awaiting caller does with the LoginResult
Resolve(w, result) ==
    LET holders == {t \in w.tasks : t.pc = "promise" /\ PromiseOf(t) = w.loginResolve}
        w0 == [w EXCEPT !.loginResolve = NoPromise]
    IN  IF w.loginResolve = NoPromise \/ holders = {} THEN w0
        ELSE LET t == CHOOSE h \in holders : TRUE
             IN  IF t.kind # "login" THEN Drop(w0, t)
                 ELSE IF result.success
                   THEN CtlFinish(w0, t, RetrySuccess(t.a1), result.user)
                   ELSE CtlAttemptFailed(w0, t, result.error)

Credentials == {NoIdToken, BadIdToken} \cup {IdToken(e, now + ExpiresIn) : e \in Emails}

\* the callback registered by initializeGoogleAuth receives a response
ProviderCredential(cred) ==
    /\ isInitialized
    /\ promptShown
    /\ ~(cred.present /\ cred.good) => Budget
    /\ nFaults' = IF cred.present /\ cred.good THEN nFaults ELSE nFaults + 1
    /\ LET h == handleCredentialResponse(cred, ls, config, now)
       IN  Becomes(Resolve([World EXCEPT !.ls = h.store, !.promptShown = FALSE,
                                         !.storedBy = IF h.result.success THEN loginResolve[1] ELSE @],
                           h.result))
    /\ UNCHANGED <<popupOpen, serverPolicy, now, nOps, retryVars, callVars>>

\* what showLoginPopup rejects with: a plain object { success: false, error: {...} }
PopupRejection == OtherValue("object", "popup-rejection")

\* the prompt notification says "not displayed" or "skipped": showLoginPopup,
\* whose window.open gives a window or null
ProviderNotDisplayed(opened) ==
    /\ promptShown
    /\ Budget
    /\ nFaults' = nFaults + 1
    /\ popupOpen' = (popupOpen \/ opened)
    /\ LET w == [World EXCEPT !.promptShown = FALSE]
       IN  Becomes(IF opened THEN w ELSE Resolve(w, LoginFailed(handleError(PopupRejection))))
    /\ UNCHANGED <<serverPolicy, now, nOps, retryVars, callVars>>

\* the interval of showLoginPopup sees popup.closed
PopupClosed ==
    /\ popupOpen
    /\ popupOpen' = FALSE
    /\ Becomes(Resolve(World, LoginFailed(handleError(PopupRejection))))
    /\ UNCHANGED <<serverPolicy, now, nOps, nFaults, retryVars, callVars>>

LoginTimedOut == AuthErr(OAUTH_FAILED, "login-timed-out", TRUE)

\* setTimeout(..., 30000) of login()
LoginTimeoutMs == 30000
\* delay useAuth.login passes to executeWithRetry
LoginRetryDelay == 1000

\* the longest the executeWithRetry loop of useAuth.login can last: every
\* attempt cut by executeWithTimeout, with the sleep between two attempts
LoginSpan ==
    (MaxRetriesOf("login") + 1) * NetworkTimeoutMs + BackoffDelay(LoginRetryDelay, 0)

\* the 30 s timer of login() armed by operation o fires; the loop of
\* useAuth.login that armed it is over by then when LoginSpan < LoginTimeoutMs
LoginTimerFires(o) ==
    /\ loginTimers[o] > 0
    /\ LoginSpan < LoginTimeoutMs => \A t \in tasks : t.op = o => t.kind \notin CtlKinds
    /\ Becomes(Resolve([World EXCEPT !.loginTimers[o] = @ - 1], LoginFailed(LoginTimedOut)))
    /\ UNCHANGED <<popupOpen, serverPolicy, now, nOps, nFaults, retryVars, callVars>>

(***************************************************************************)
(* The environment.                                                        *)
(***************************************************************************)
Tick ==
    /\ Budget
    /\ now' = now + 1
    /\ UNCHANGED <<worldVars, popupOpen, serverPolicy, nOps, nFaults, retryVars, callVars>>

\* the operator removes users from the policy document
PolicyChange(doc) ==
    /\ doc # serverPolicy
    /\ doc \subseteq serverPolicy
    /\ serverPolicy' = doc
    /\ UNCHANGED <<worldVars, popupOpen, now, nOps, nFaults, retryVars, callVars>>

(***************************************************************************)
(* The application: the hook mounted in a tab.                             *)
(***************************************************************************)
\* a session left in localStorage by an earlier visit
StoredSession(user, refresh) ==
    saveUserInfo(saveTokens(EmptyStorage, "", IdToken(user, ExpiresIn), refresh, ExpiresIn, 0), user)

\* (handleCredentialResponse stores no refresh token; a session that holds
\* one was written with a token set that carried it)
InitialStores == {EmptyStorage, StoredSession(UserA, "rt"), StoredSession(UserA, "null")}

\* useState initial value, then the mount effect has called checkAuthStatus
InitialAuthState == [isAuthenticated |-> FALSE, user |-> NoUser, isLoading |-> TRUE, error |-> NoError]

MountCheck == [Task("checkAuthStatus", 1) EXCEPT !.pc = "fetch"]

NoReturn == [fn |-> "none", value |-> FALSE]

\* no service method is called on its own
NoCall ==
    /\ callArg = NoUser
    /\ ret = NoReturn
    /\ thrown = NoError
    /\ classified = NoError

RetryIdle ==
    /\ rMax = 0
    /\ rPc = "idle"
    /\ rAttempt = 0
    /\ rCalls = 0
    /\ rInFlight = 0
    /\ rHist = <<>>
    /\ rDelays = <<>>
    /\ rResult = NoResult

Init ==
    /\ authState = InitialAuthState
    /\ ls \in InitialStores
    /\ config = NoConfig
    /\ clientId = "null"
    /\ isInitialized = FALSE
    /\ googleLoaded = FALSE
    /\ loginResolve = NoPromise
    /\ tasks = {MountCheck}
    /\ promptShown = FALSE
    /\ loginTimers = [o \in OpIds |-> 0]
    /\ lastCheck = "none"
    /\ popupOpen = FALSE
    /\ serverPolicy \in PolicyDocs
    /\ now = 0
    /\ nOps = 0
    /\ nFaults = 0
    /\ mounted = TRUE
    /\ intervalArmed = 0
    /\ lastLogout = "none"
    /\ storedBy = 0
    /\ nFetches = [o \in OpIds |-> IF o = 1 THEN 1 ELSE 0]
    /\ RetryIdle
    /\ NoCall

Next ==
    \/ StorageEvent
    \/ UserLogin
    \/ ValidityInterval
    \/ UserRefresh
    \/ \E revokeThrows \in BOOLEAN : UserLogout(revokeThrows)
    \/ clearError
    \/ Unmount
    \/ \E t \in tasks : CtlSleepDone(t)
    \/ \E t \in tasks : InnerSleepDone(t)
    \/ \E t \in tasks : CtlTimeout(t)
    \/ \E t \in tasks : InnerTimeout(t)
    \/ \E t \in tasks, ok \in BOOLEAN : ConfigFetchResponds(t, ok)
    \/ \E t \in tasks, ok \in BOOLEAN : ScriptResponds(t, ok)
    \/ \E t \in tasks, answer \in RefreshAnswers : RefreshResponds(t, answer)
    \/ \E cred \in Credentials : ProviderCredential(cred)
    \/ \E opened \in BOOLEAN : ProviderNotDisplayed(opened)
    \/ PopupClosed
    \/ \E o \in OpIds : LoginTimerFires(o)
    \/ Tick
    \/ \E doc \in PolicyDocs : PolicyChange(doc)

Spec == Init /\ [][Next]_vars

TaskKinds == CtlKinds \cup {"checkBody", "loginBody", "initBody", "refreshBody"}

TypeOK ==
    /\ authState.isAuthenticated \in BOOLEAN
    /\ authState.isLoading \in BOOLEAN
    /\ authState.user \in Emails \cup {NoUser}
    /\ authState.error.shape \in {"none", "auth"}
    /\ ls.user \in Emails \cup {NoUser}
    /\ config.loaded \in BOOLEAN
    /\ clientId \in {"null", "set"}
    /\ \A t \in tasks :
          /\ t.kind \in TaskKinds
          /\ t.op \in OpIds
          /\ t.pc \in {"fetch", "script", "post", "promise", "sleep1", "sleep3"}
          /\ t.a1 \in 0..2
          /\ t.a3 \in 0..2
    /\ promptShown \in BOOLEAN
    /\ lastCheck \in {"none", "token-invalid", "no-user-info", "not-allowed", "user"}
    /\ popupOpen \in BOOLEAN
    /\ nEvents \in 0..MaxFaults
    /\ mounted \in BOOLEAN
    /\ intervalArmed \in 0..1
    /\ lastLogout \in {"none", "user", "user-catch", "refresh", "interval"}
    /\ storedBy \in OpIds \cup {0}
    /\ \A o \in OpIds : nFetches[o] \in 0..MaxFaults

(***************************************************************************)
(* ErrorHandlingService.executeWithRetry on its own: one call with         *)
(* maxRetries = rMax on an operation whose every invocation may resolve,   *)
(* reject with any raw value, or outlast executeWithTimeout.               *)
(***************************************************************************)
\* values an operation can reject with
RawErrors ==
    {AccessDenied, LoadConfigError, FetchTypeError,
     ErrorObj("Error", {}, "plain-error"),
     ErrorObj("Error", {"token", "expired"}, "token-expired"),
     ErrorObj("Error", {"access", "denied"}, "access-denied-by-server"),
     ErrorObj("Error", {"config"}, "invalid-config"),
     OtherValue("string", "thrown-string")}

\* the hook is not mounted
NotMounted ==
    /\ authState = InitialAuthState
    /\ ls = EmptyStorage
    /\ config = NoConfig
    /\ clientId = "null"
    /\ isInitialized = FALSE
    /\ googleLoaded = FALSE
    /\ loginResolve = NoPromise
    /\ tasks = {}
    /\ promptShown = FALSE
    /\ loginTimers = [o \in OpIds |-> 0]
    /\ lastCheck = "none"
    /\ popupOpen = FALSE
    /\ serverPolicy = {}
    /\ now = 0
    /\ nOps = 0
    /\ nFaults = 0
    /\ mounted = FALSE
    /\ intervalArmed = 0
    /\ lastLogout = "none"
    /\ storedBy = 0
    /\ nFetches = [o \in OpIds |-> 0]

\* executeWithRetry was called and has invoked operation() for attempt 0
InitRetry ==
    /\ NotMounted
    /\ rMax \in 0..MaxN
    /\ rPc = "await"
    /\ rAttempt = 0
    /\ rCalls = 1
    /\ rInFlight = 0
    /\ rHist = <<>>
    /\ rDelays = <<>>
    /\ rResult = NoResult
    /\ NoCall

\* the catch block of the loop
RetryAttemptFailed(raw, timedOut) ==
    LET lastError == handleError(raw)
    IN  /\ rHist' = Append(rHist, [error |-> lastError, timedOut |-> timedOut])
        /\ IF RetryStops(lastError, rAttempt, rMax)
             THEN /\ rPc' = "done"
                  /\ rResult' = RetryFailure(lastError, rAttempt)
                  /\ rDelays' = rDelays
             ELSE /\ rPc' = "sleep"
                  /\ rResult' = rResult
                  /\ rDelays' = Append(rDelays, BackoffDelay(DefaultRetryDelay, rAttempt))
        /\ UNCHANGED <<rMax, rAttempt, rCalls>>

\* operation() resolves before the timer
OpResolves ==
    /\ rPc = "await"
    /\ rPc' = "done"
    /\ rResult' = RetrySuccess(rAttempt)
    /\ UNCHANGED <<mainVars, callVars, rMax, rAttempt, rCalls, rInFlight, rHist, rDelays>>

\* operation() rejects before the timer
OpRejects(raw) ==
    /\ rPc = "await"
    /\ RetryAttemptFailed(raw, FALSE)
    /\ UNCHANGED <<mainVars, callVars, rInFlight>>

\* createTimeoutPromise rejects first; the operation is left running
RetryTimeout ==
    /\ rPc = "await"
    /\ RetryAttemptFailed(TimeoutRejection, TRUE)
    /\ rInFlight' = rInFlight + 1
    /\ UNCHANGED <<mainVars, callVars>>

\* await this.sleep(delay) returns; the next turn of the loop invokes operation()
RetrySleepDone ==
    /\ rPc = "sleep"
    /\ rPc' = "await"
    /\ rAttempt' = rAttempt + 1
    /\ rCalls' = rCalls + 1
    /\ UNCHANGED <<mainVars, callVars, rMax, rInFlight, rHist, rDelays, rResult>>

\* an operation that lost its race settles, unobserved
AbandonedSettles ==
    /\ rInFlight > 0
    /\ rInFlight' = rInFlight - 1
    /\ UNCHANGED <<mainVars, callVars, rMax, rPc, rAttempt, rCalls, rHist, rDelays, rResult>>

NextRetry ==
    \/ OpResolves
    \/ \E raw \in RawErrors : OpRejects(raw)
    \/ RetryTimeout
    \/ RetrySleepDone
    \/ AbandonedSettles

SpecRetry == InitRetry /\ [][NextRetry]_vars

(***************************************************************************)
(* GoogleAuthService.isTokenValid and AllowlistService.checkEmailAllowed   *)
(* called on their own, on any storage content and clock, and on any       *)
(* email against any loaded policy.                                        *)
(***************************************************************************)
Clock == 0..MaxClock

\* id tokens that storage can hold: none, one decodeJWT rejects, decodable ones
CallIdTokens == {NoIdToken, BadIdToken} \cup {IdToken(UserA, exp) : exp \in Clock}

\* storage contents; an expiry that saveTokens wrote is a time after 0
CallStores ==
    {[access |-> "at", id |-> id, refresh |-> refresh, expiry |-> expiry, user |-> NoUser] :
        id \in CallIdTokens, refresh \in {"null", "rt"}, expiry \in {NoExpiry} \cup (1..MaxClock)}

toUpperCaseChar(c) ==
    CASE c = "a" -> "A"
      [] c = "b" -> "B"
      [] c = "x" -> "X"
      [] c = "c" -> "C"
      [] OTHER -> c

\* the spellings of s in upper and lower case letters
CaseVariants(s) ==
    {[i \in 1..Len(s) |-> IF i \in upper THEN toUpperCaseChar(s[i]) ELSE s[i]] :
        upper \in SUBSET (1..Len(s))}

LongerDomain == <<"a", "@", "x", ".", "c", "c">>

\* entries a validated policy document can list
ListedEmails == {UserA, <<"B", "@", "X", ".", "C">>, LongerDomain}

\* strings that are no email address
InvalidEmails ==
    {<<>>, <<"a", "@", "x">>, <<"@", "x", ".", "c">>, <<"a", "@", ".", "c">>,
     <<"a", "@", "x", ".", ".", "c">>, <<"a", " ", "@", "x", ".", "c">>}

\* emails checkEmailAllowed is asked about
CallEmails ==
    CaseVariants(UserA) \cup CaseVariants(UserB) \cup CaseVariants(LongerDomain) \cup InvalidEmails

\* the services as constructed, the hook not mounted
ServicesIdle ==
    /\ authState = InitialAuthState
    /\ clientId = "null"
    /\ isInitialized = FALSE
    /\ googleLoaded = FALSE
    /\ loginResolve = NoPromise
    /\ tasks = {}
    /\ promptShown = FALSE
    /\ loginTimers = [o \in OpIds |-> 0]
    /\ lastCheck = "none"
    /\ popupOpen = FALSE
    /\ serverPolicy = {}
    /\ nOps = 0
    /\ nFaults = 0
    /\ mounted = FALSE
    /\ intervalArmed = 0
    /\ lastLogout = "none"
    /\ storedBy = 0
    /\ nFetches = [o \in OpIds |-> 0]
    /\ RetryIdle

\* the words the classifier looks for in a lower-cased message; none is part
\* of another
Keywords ==
    {"network", "fetch", "timeout", "connection", "token", "expired", "access", "denied",
     "config", "client_id"}

ErrorNames == {"Error", "TypeError", "NetworkError", "TimeoutError"}

\* values handleError can be given: objects of the AuthError shape (with a
\* type of the taxonomy or not), Errors of any name and message, and values
\* that are neither
ThrownValues ==
    {AuthErr(type, "m", retryable) : type \in AuthErrorType \cup {"UNLISTED"}, retryable \in BOOLEAN}
      \cup {ErrorObj(name, kw, "m") : name \in ErrorNames, kw \in SUBSET Keywords}
      \cup {OtherValue(kind, "m") : kind \in {"string", "object", "null", "number"}}

InitCalls ==
    /\ ServicesIdle
    /\ ret = NoReturn
    /\ classified = NoError
    /\ \/ /\ ls \in CallStores
          /\ now \in Clock
          /\ config = NoConfig
          /\ callArg = NoUser
          /\ thrown = NoError
       \/ /\ ls = EmptyStorage
          /\ now = 0
          /\ config \in {Policy(allowed) : allowed \in SUBSET ListedEmails}
          /\ callArg \in CallEmails
          /\ thrown = NoError
       \/ /\ ls = EmptyStorage
          /\ now = 0
          /\ config = NoConfig
          /\ callArg = NoUser
          /\ thrown \in ThrownValues

\* await googleAuthService.isTokenValid()
IsTokenValidCall ==
    /\ ret = NoReturn
    /\ ~config.loaded
    /\ ret' = [fn |-> "isTokenValid", value |-> isTokenValid(ls, now)]
    /\ UNCHANGED <<mainVars, retryVars, callArg, thrown, classified>>

\* await allowlistService.checkEmailAllowed(callArg), the result's isAllowed
CheckEmailAllowedCall ==
    /\ ret = NoReturn
    /\ config.loaded
    /\ ret' = [fn |-> "checkEmailAllowed", value |-> checkEmailAllowed(config, callArg)]
    /\ UNCHANGED <<mainVars, retryVars, callArg, thrown, classified>>

\* errorHandlingService.handleError(thrown)
HandleErrorCall ==
    /\ thrown # NoError
    /\ classified = NoError
    /\ classified' = handleError(thrown)
    /\ UNCHANGED <<mainVars, retryVars, callArg, ret, thrown>>

NextCalls ==
    \/ IsTokenValidCall
    \/ CheckEmailAllowedCall
    \/ HandleErrorCall

SpecCalls == InitCalls /\ [][NextCalls]_vars

(***************************************************************************)
(* Properties of the calls made on their own (under SpecCalls).            *)
(***************************************************************************)
PersistedExpiryPassed == ls.expiry # NoExpiry /\ ls.expiry <= now
TokenExpiryPassed == ls.id.good /\ ls.id.exp <= now

CasePairs == {<<"A", "a">>, <<"B", "b">>, <<"X", "x">>, <<"C", "c">>}

\* a and b differ at most in the case of their letters
SameIgnoringCase(a, b) ==
    /\ Len(a) = Len(b)
    /\ \A i \in 1..Len(a) :
          a[i] = b[i] \/ <<a[i], b[i]>> \in CasePairs \/ <<b[i], a[i]>> \in CasePairs

\* C20: with a policy loaded, checkEmailAllowed(email) allows exactly the
\* syntactically valid emails that equal an entry of allowedEmails up to
\* letter case (no prefix, partial or domain match); it decides alike for
\* two inputs that differ only in letter case, and an empty allowedEmails
\* allows nobody.
C20_CaseInsensitiveMembership ==
    ret.fn = "checkEmailAllowed" =>
        /\ ret.value = (/\ isValidEmail(callArg)
                        /\ \E entry \in config.allowedEmails : SameIgnoringCase(entry, callArg))
        /\ \A other \in CallEmails :
              SameIgnoringCase(other, callArg) => checkEmailAllowed(config, other) = ret.value
        /\ config.allowedEmails = {} => ~ret.value

\* an email allowed although the list spells it in another case
C20_Witness ==
    /\ ret.fn = "checkEmailAllowed"
    /\ ret.value
    /\ callArg \notin config.allowedEmails
    /\ config.allowedEmails # {}

IsError(v) == v.shape = "error"

NetworkHeuristics(v) ==
    \/ v.kw \cap {"network", "fetch", "timeout", "connection"} # {}
    \/ v.name \in {"NetworkError", "TimeoutError"}

\* C21: handleError decides in a fixed order.  A value of the AuthError shape
\* is returned unchanged, so classifying a result again changes nothing.
\* Else an Error whose message mentions network, fetch, timeout or
\* connection, or whose name is NetworkError or TimeoutError, becomes
\* NETWORK_ERROR, retryable, also when its message matches a later rule.
\* Else token with expired gives TOKEN_EXPIRED (retryable), access with
\* denied ACCESS_DENIED (not retryable), config or client_id CONFIG_ERROR
\* (not retryable), any other Error OAUTH_FAILED (retryable).  A value that
\* is neither becomes OAUTH_FAILED, retryable.
C21_ClassifyOrder ==
    classified # NoError =>
        /\ handleError(classified) = classified
        /\ isAuthError(thrown) => classified = thrown
        /\ (IsError(thrown) /\ NetworkHeuristics(thrown)) =>
              (classified.type = NETWORK_ERROR /\ classified.retryable)
        /\ (IsError(thrown) /\ ~NetworkHeuristics(thrown)) =>
              <<classified.type, classified.retryable>> =
                  IF {"token", "expired"} \subseteq thrown.kw THEN <<TOKEN_EXPIRED, TRUE>>
                  ELSE IF {"access", "denied"} \subseteq thrown.kw THEN <<ACCESS_DENIED, FALSE>>
                  ELSE IF thrown.kw \cap {"config", "client_id"} # {} THEN <<CONFIG_ERROR, FALSE>>
                  ELSE <<OAUTH_FAILED, TRUE>>
        /\ (~isAuthError(thrown) /\ ~IsError(thrown)) =>
              (classified.type = OAUTH_FAILED /\ classified.retryable)

\* an Error whose message names a failed fetch of the config and a denied
\* access was classified as a network failure
C21_Witness ==
    /\ thrown = ErrorObj("Error", {"fetch", "config", "access", "denied"}, "m")
    /\ classified = AuthErr(NETWORK_ERROR, "m", TRUE)

(***************************************************************************)
(* Properties of the retry engine (under SpecRetry).                       *)
(***************************************************************************)
AllRetryable == \A i \in 1..Len(rHist) : rHist[i].error.retryable

\* C6: for every maxRetries N >= 0, a call whose operation failed every time
\* with a retryable error has executed it exactly N+1 times and returns
\* failure with retryCount = N; a call that succeeded after k failures
\* (k <= N) has executed it exactly k+1 times and returns success with
\* retryCount = k.
C6_RetryCounts ==
    rPc = "done" =>
        /\ rResult.success =>
              /\ Len(rHist) <= rMax
              /\ rCalls = Len(rHist) + 1
              /\ rResult.retryCount = Len(rHist)
        /\ (~rResult.success /\ AllRetryable) =>
              /\ Len(rHist) = rMax + 1
              /\ rCalls = rMax + 1
              /\ rResult.retryCount = rMax

\* an always-failing retryable operation under maxRetries = 2 has run to its end
C6_Witness ==
    /\ rPc = "done"
    /\ rMax = 2
    /\ ~rResult.success
    /\ AllRetryable
    /\ rCalls = 3
    /\ rResult.retryCount = 2

C9_TimeoutIsNetworkError ==
    /\ \A i \in 1..Len(rHist) :
          rHist[i].timedOut =>
              rHist[i].error.type = NETWORK_ERROR /\ rHist[i].error.retryable
    /\ (rPc = "done" /\ Len(rHist) >= 1 /\ rHist[Len(rHist)].timedOut /\ ~rResult.success) =>
          rResult.error.type = NETWORK_ERROR

(***************************************************************************)
(* Properties of the application (under Spec).                             *)
(***************************************************************************)
LoginsAtPrompt == {t \in tasks : t.kind = "login" /\ t.pc = "promise"}

\* C1: login() is serialized: while one login() of the controller is in
\* flight a second login() starts no provider flow of its own, so no two
\* logins ever wait on a prompt each has started.
C1_LoginSerialized == Cardinality(LoginsAtPrompt) <= 1

\* C2: no checkAuthStatus and no refresh is executing while a login() started
\* by the controller has not completed.
C2_LoginExcludesCheck ==
    \A l \in tasks, c \in tasks :
        ~(l.kind = "login" /\ c.kind \in {"checkAuthStatus", "refreshToken"})

\* the provider hands over a decodable credential whose email the allowlist rejects
RejectedCredential(cred) ==
    /\ cred.present
    /\ cred.good
    /\ ~checkEmailAllowed(config, cred.email)
    /\ ProviderCredential(cred)

\* C3: when the provider returns a decodable credential whose email is not
\* authorized, the controller status becomes unauthenticated with an error of
\* type ACCESS_DENIED and retryable = false.
C3_RejectionReachesStatus ==
    [][\A cred \in Credentials :
          RejectedCredential(cred) =>
              /\ ~authState'.isAuthenticated
              /\ authState'.error.type = ACCESS_DENIED
              /\ ~authState'.error.retryable]_vars

\* C4: during login the tokens and the user are written to storage only by
\* the credential handler and only after the allowlist allowed the
\* credential's email; a credential that is rejected, missing or undecodable
\* leaves storage as it was, and so do the other steps of a login.
C4_StoreOnlyAfterAllowed ==
    [][/\ \A cred \in Credentials :
             ProviderCredential(cred) =>
                 IF cred.present /\ cred.good /\ checkEmailAllowed(config, cred.email)
                   THEN ls'.id = cred /\ ls'.user = cred.email
                   ELSE ls' = ls
       /\ (\/ UserLogin
           \/ \E opened \in BOOLEAN : ProviderNotDisplayed(opened)
           \/ PopupClosed
           \/ \E o \in OpIds : LoginTimerFires(o)) => ls' = ls]_vars

\* a login was rejected by the allowlist and storage holds nothing
C4_Witness ==
    /\ authState.error = AccessDenied
    /\ ~authState.isAuthenticated
    /\ ls = EmptyStorage
    /\ nOps >= 1

\* the checkAuthStatus task t gets past initialize() in this step and so calls getCurrentUser()
CheckCompletes(t) ==
    /\ t.kind = "checkAuthStatus"
    /\ ConfigFetchResponds(t, TRUE) \/ ScriptResponds(t, TRUE)
    /\ \A u \in tasks' : ~(u.kind = "checkAuthStatus" /\ u.op = t.op)

\* C5: when storage holds an unexpired session of a user whom the policy the
\* status check has loaded no longer lists, the check clears the stored
\* tokens and user, getCurrentUser returns null and the status is
\* unauthenticated.
C5_RemovedUserLoggedOut ==
    [][\A t \in tasks :
          (/\ CheckCompletes(t)
           /\ isTokenValid(ls, now)
           /\ ls.user # NoUser
           /\ ~checkEmailAllowed(config', ls.user)) =>
              /\ ls' = brokerLogout(ls)
              /\ lastCheck' = "not-allowed"
              /\ ~authState'.isAuthenticated
              /\ authState'.user = NoUser]_vars

\* a status check has logged out a user the policy no longer lists
C5_Witness ==
    /\ lastCheck = "not-allowed"
    /\ config = Policy({})
    /\ ls = EmptyStorage
    /\ ~authState.isAuthenticated
    /\ ~authState.isLoading

Sleeping == {t \in tasks : t.pc \in {"sleep1", "sleep3"}}

\* C8: no retry loop of initialize, checkAuthStatus, login or refreshToken
\* goes on to another attempt after an attempt failed with ACCESS_DENIED or
\* CONFIG_ERROR, the CONFIG_ERROR of loadConfig included.
C8_DeniedOrConfigNeverRetried ==
    \A t \in Sleeping : t.last.type \notin {ACCESS_DENIED, CONFIG_ERROR}

\* C8 as the code has it: a loop goes on to another attempt only after a
\* retryable failure; never after ACCESS_DENIED, and after CONFIG_ERROR only
\* when it is the retryable one loadConfig throws.
C8_OnlyRetryableRetried ==
    \A t \in Sleeping :
        /\ t.last.retryable
        /\ t.last.type # ACCESS_DENIED
        /\ t.last.type = CONFIG_ERROR => t.last = LoadConfigError

\* the loop of initialize sleeps before it retries a failed loadConfig
C8_Witness ==
    \E t \in tasks :
        /\ t.kind = "checkAuthStatus"
        /\ t.pc = "sleep3"
        /\ t.a3 = 0
        /\ t.last = LoadConfigError

ErrorsInState == ({authState.error} \cup {t.last : t \in tasks}) \ {NoError}

\* the table of retryability by type
RetryableByType(type) == type \in {OAUTH_FAILED, NETWORK_ERROR, TOKEN_EXPIRED}

PendingLogins == {t \in tasks : t.pc = "promise"}

\* C11: every call of GoogleAuthService.login() resolves in the end, with the
\* credential's result, a cancellation or the 30 s timeout, also when another
\* login() is started before it has resolved.  The credential callback, the
\* popup and the timer resolve only the promise whose resolver
\* this.loginResolve holds, so every pending promise must be that one.
C11_PendingLoginHasResolver ==
    \A t \in PendingLogins : loginResolve = PromiseOf(t)

\* what an attempt of refreshToken that found no refresh token is retried after
MissingRefreshTokenError == handleError(MissingRefreshToken)

\* no refresh token is stored (getTokens gives none without an id token)
NoRefreshTokenStored == ~ls.id.present \/ ls.refresh = "null"

\* the task of the refreshToken call that this step starts
StartedRefresh == {t \in tasks' : t.kind = "refreshToken" /\ t.op = nOps + 2}

\* C13: a refreshToken() called while no refresh token is stored makes no
\* call to the token endpoint and leaves the storage as it was: neither the
\* step of the call nor a later attempt of that call POSTs or writes.
C13_NoRefreshTokenNoCall ==
    [][/\ ((UserRefresh \/ ValidityInterval) /\ NoRefreshTokenStored) =>
             /\ ls' = ls
             /\ \A t \in StartedRefresh : t.pc # "post"
       /\ \A t \in tasks :
             (/\ t.kind = "refreshToken"
              /\ t.a3 = 0
              /\ t.last = MissingRefreshTokenError
              /\ InnerSleepDone(t)) =>
                 \A u \in tasks' : u.op = t.op => u.pc # "post"]_vars

\* C14: a missing refresh token is not retried: the operation of
\* refreshToken runs once and no backoff delay is waited after it.
C14_MissingRefreshTokenNotRetried ==
    \A t \in tasks :
        ~(t.kind = "refreshToken" /\ t.pc = "sleep3" /\ t.last = MissingRefreshTokenError)

\* this step issues a fetch of the policy document
FetchIssued ==
    \E t \in tasks' :
        /\ t.pc = "fetch"
        /\ \A u \in tasks : ~(u.pc = "fetch" /\ u.op = t.op /\ u.a1 = t.a1 /\ u.a3 = t.a3)

\* C19: once a policy is loaded it stays the cached one: no operation
\* fetches the document again or replaces the cached policy (the application
\* never calls reloadConfig).
C19_PolicyStaysCached ==
    [][config.loaded => (config' = config /\ ~FetchIssued)]_vars

\* C15: useAuth.logout() ends with the local state cleared whether or not
\* the revocation at the provider (disableAutoSelect) throws: no access
\* token, id token, refresh token, expiry or user is stored and the status is
\* unauthenticated, without user and not loading.
C15_LogoutClearsLocalState ==
    [][\A revokeThrows \in BOOLEAN :
          UserLogout(revokeThrows) =>
              /\ ls' = EmptyStorage
              /\ ~authState'.isAuthenticated
              /\ authState'.user = NoUser
              /\ ~authState'.isLoading]_vars

\* the logout of an authenticated session whose revocation threw
C15_Witness ==
    /\ lastLogout = "user-catch"
    /\ lastCheck = "user"
    /\ ls = EmptyStorage
    /\ authState = LoggedOutState

\* the checkAuthStatus task t returns in this step
CheckEnds(t) ==
    /\ t.kind = "checkAuthStatus"
    /\ \A u \in tasks' : ~(u.kind = "checkAuthStatus" /\ u.op = t.op)

\* C16: every checkAuthStatus ends not loading and in one of three ways:
\* authenticated with the user getCurrentUser returned and no error; not
\* authenticated, without user and without error when getCurrentUser
\* returned null; not authenticated, without user and with the classified
\* error of the last attempt when the retries ended in failure.
C16_CheckStatusOutcomes ==
    [][\A t \in tasks :
          /\ CheckCompletes(t) =>
                LET g == getCurrentUser(ls, config', now)
                IN  authState' =
                      IF g.user # NoUser
                        THEN [isAuthenticated |-> TRUE, user |-> g.user, isLoading |-> FALSE, error |-> NoError]
                        ELSE [isAuthenticated |-> FALSE, user |-> NoUser, isLoading |-> FALSE, error |-> NoError]
          /\ (CheckEnds(t) /\ ~CheckCompletes(t)) =>
                /\ ~authState'.isAuthenticated
                /\ authState'.user = NoUser
                /\ ~authState'.isLoading
                /\ ConfigFetchResponds(t, FALSE) => authState'.error = handleError(LoadConfigError)
                /\ ScriptResponds(t, FALSE) => authState'.error = handleError(ScriptLoadError)
                /\ (CtlTimeout(t) \/ InnerTimeout(t)) => authState'.error = handleError(TimeoutRejection)]_vars

\* the mount-time check, running alone, has ended in failure after its retries
C16_Witness ==
    /\ nOps = 0
    /\ tasks = {}
    /\ ~authState.isAuthenticated
    /\ ~authState.isLoading
    /\ authState.error = LoadConfigError

\* the useAuth.refreshToken task t returns false in this step
RefreshFails(t) ==
    /\ t.kind = "refreshToken"
    /\ \A u \in tasks' : u.op = t.op => u.kind \notin {"refreshToken", "checkAuthStatus"}

\* C17: a validity check that finds the token invalid while the status is
\* authenticated calls refreshToken(), and when that refreshToken() fails
\* logout() runs: the status is unauthenticated and the storage is cleared.
C17_FailedRefreshLogsOut ==
    [][/\ ValidityInterval =>
             \/ \E t \in StartedRefresh : t.by = "interval"
             \/ (lastLogout' = "interval" /\ ls' = EmptyStorage /\ ~authState'.isAuthenticated)
       /\ \A t \in tasks :
             (t.by = "interval" /\ RefreshFails(t)) =>
                 /\ lastLogout' = "interval"
                 /\ ls' = EmptyStorage
                 /\ ~authState'.isAuthenticated
                 /\ authState'.user = NoUser]_vars

\* the refresh started by the validity check has failed and logged the user out
C17_Witness ==
    /\ lastLogout = "interval"
    /\ ls = EmptyStorage
    /\ ~authState.isAuthenticated
    /\ now > 0

\* C18: the validity interval is armed only while the hook is mounted and
\* the status is authenticated: it is cleared on every transition to
\* unauthenticated and on teardown, no validity check starts while the status
\* is unauthenticated, and at most one interval is armed.
C18_IntervalOnlyWhileAuthenticated ==
    [][/\ ValidityInterval => authState.isAuthenticated
       /\ intervalArmed' <= 1
       /\ intervalArmed' = (IF mounted' /\ authState'.isAuthenticated THEN 1 ELSE 0)]_vars

\* authenticated again after a logout: the first interval was cleared, one is armed
C18_Witness ==
    /\ mounted
    /\ lastLogout = "user"
    /\ authState.isAuthenticated
    /\ intervalArmed = 1

\* C22: an id token held in storage is always one decodeJWT accepts: neither
\* the credential handler of login nor refreshToken() stores a token set whose
\* id token cannot be decoded.
C22_StoredIdTokenDecodable == ls.id.present => ls.id.good

\* refreshToken() returns true in this step: the token endpoint answered the
\* POST of a call that is still awaited with a token set
RefreshSucceeds(t, answer) ==
    /\ t.kind = "refreshToken"
    /\ answer \in {"tokens", "tokens-without-id", "tokens-bad-id"}
    /\ RefreshResponds(t, answer)

\* C29: once refreshToken() has returned true, isTokenValid() is true until
\* the expiry just persisted passes, also when the answer carried no id_token
\* and the stored id token was kept.
C29_ValidAfterRefresh ==
    [][\A t \in tasks, answer \in RefreshAnswers :
          RefreshSucceeds(t, answer) => (ls'.expiry > now /\ isTokenValid(ls', now))]_vars

\* C23: in every reachable AuthState, whatever checkAuthStatus, login, logout,
\* refreshToken and clearError calls have run and overlapped, isAuthenticated
\* is true exactly when user is not null, and no error is held while
\* isAuthenticated is true.
C23_AuthStateConsistent ==
    /\ authState.isAuthenticated = (authState.user # NoUser)
    /\ authState.isAuthenticated => authState.error = NoError

\* a login made while authenticated was rejected by the allowlist: the status
\* holds the error and is no longer authenticated
C23_Witness ==
    /\ lastCheck = "user"
    /\ nOps >= 1
    /\ authState.error = AccessDenied
    /\ ~authState.isAuthenticated
    /\ authState.user = NoUser
    /\ ls.user = UserA

\* the useAuth.login task t ends in this step with the failure branch
LoginEndsFailed(t) ==
    /\ t.kind = "login"
    /\ \A u \in tasks' : ~(u.kind = "login" /\ u.op = t.op)
    /\ ~authState'.isAuthenticated

\* the login() call the credential callback would answer is awaited by an
\* attempt of useAuth.login
AwaitedByLogin ==
    \E t \in tasks : t.kind = "login" /\ t.pc = "promise" /\ PromiseOf(t) = loginResolve

\* C24: a useAuth.login that ends with the status unauthenticated leaves no
\* tokens or user of its own login() calls in storage: a credential that
\* arrives once executeWithTimeout has given the attempt up, or once the loop
\* has ended, is not stored.
C24_FailedLoginStoresNothing ==
    [][/\ \A t \in tasks : LoginEndsFailed(t) => storedBy' # t.op
       /\ \A cred \in Credentials :
             (ProviderCredential(cred) /\ ~AwaitedByLogin) => ls' = ls]_vars

\* the executions of the operation of operation o's executeWithRetry loop
\* that have not settled: the attempt the loop awaits and the attempts
\* executeWithTimeout gave up
CtlExecutions(o) ==
    {t \in tasks :
        /\ t.op = o
        /\ \/ t.kind \in {"checkAuthStatus", "login"} /\ t.pc # "sleep1"
           \/ t.kind \in {"checkBody", "loginBody"}}

\* the login() calls of operation o whose promise is pending
LoginCallsPending(o) ==
    {t \in tasks : t.op = o /\ t.kind \in {"login", "loginBody"} /\ t.pc = "promise"}

\* C25: within one executeWithRetry call the next attempt starts only after
\* the attempt before it has settled, so at most one execution of the
\* operation is in progress; in particular one useAuth.login never has two
\* GoogleAuthService.login() calls pending.
C25_OneAttemptInProgress ==
    \A o \in OpIds :
        /\ Cardinality(CtlExecutions(o)) <= 1
        /\ Cardinality(LoginCallsPending(o)) <= 1

\* the login() promises the step of a firing 30 s timer resolves
ResolvedByTimer == {t \in PendingLogins : PromiseOf(t) = loginResolve}

\* C26: the 30 s timer a login() call has armed resolves only that call's
\* promise with the timeout failure: the timer of an earlier call, already
\* resolved, never resolves a later login(), so none is reported as timed
\* out before it has waited 30 seconds itself.
C26_TimerResolvesOwnLogin ==
    [][\A o \in OpIds :
          LoginTimerFires(o) => \A t \in ResolvedByTimer : t.op = o]_vars

\* a login stores its session in this step
LoginStores ==
    \E cred \in Credentials :
        /\ cred.present
        /\ cred.good
        /\ checkEmailAllowed(config, cred.email)
        /\ ProviderCredential(cred)

\* C27: once a logout() has run and the storage is empty, it stays empty
\* until a login succeeds: in particular the POST of a refreshToken attempt
\* that executeWithTimeout gave up writes no tokens when it is answered after
\* refreshToken() has failed and the logout() that follows has ended.
C27_EmptyUntilLogin ==
    [][(lastLogout # "none" /\ ls = EmptyStorage) => (ls' = EmptyStorage \/ LoginStores)]_vars

\* the checkAuthStatus and login calls of useAuth that have not returned
\* (logout returns in the step that starts it)
OpsInFlight == {t \in tasks : t.kind \in {"checkAuthStatus", "login"}}

\* C28: isLoading is true in every state in which a checkAuthStatus, login
\* or logout of useAuth is in flight, and is false only when none is, also
\* when two of them overlap.
C28_LoadingWhileInFlight == OpsInFlight # {} => authState.isLoading

\* C30: retry budgets do not multiply: one checkAuthStatus call, whose loop
\* (2 retries) wraps initialize() with its own loop (2 retries), makes
\* initialize fetch the policy document at most 3 times, also when every
\* fetch fails with a retryable error.
C30_AtMostThreeFetches ==
    \A t \in tasks : t.kind \in {"checkAuthStatus", "checkBody"} => nFetches[t.op] <= 3

====
